---- MODULE Spec2Model ----
(***************************************************************************)
(* Model of the wallet backend: the users and transactions tables, the     *)
(* closed vocabularies of models.rs, the query builder and aggregator of   *)
(* queries.rs and the HTTP handlers of main.rs.                            *)
(*                                                                         *)
(* Amounts are integers (minor units); timestamps are a logical clock that *)
(* the storage advances on every insert; row and user ids are the position *)
(* of the row in its table.                                                *)
(***************************************************************************)
EXTENDS Integers, Sequences, FiniteSets, TLC

VARIABLES
    users,          \* the users table, in insertion order
    transactions,   \* the transactions table, in insertion order
    op,             \* the operation the last step performed
    request,        \* its input
    query,          \* the query get_transactions built (sql text pieces, bound arguments)
    fetched,        \* the rows storage returned for that query, in the order returned
    response,       \* what the operation returned
    dbCalls,        \* the number of storage round trips the operation issued
    ledger,         \* history: per email, the signed magnitudes of the successful creations
    directory,      \* the migrations directory: none, or the names of its files
    sqlx_migrations, \* the rows of the _sqlx_migrations table
    schema,         \* the migration statements committed to the database, in order
    executed,       \* history: the statements the last run_migrations sent to storage
    migrated        \* what the last run_migrations returned

\* what run_migrations reads and writes; the request handlers leave it alone
migration_vars == <<directory, sqlx_migrations, schema, executed, migrated>>

vars == <<users, transactions, op, request, query, fetched, response, dbCalls, ledger,
          directory, sqlx_migrations, schema, executed, migrated>>

----------------------------------------------------------------------------
(* Bounds of the model *)

MaxTxns == 2

\* the largest magnitude normalized_amount is applied to on its own
MaxAmount == 2

\* the most files the migrations directory holds
MaxFiles == 2

----------------------------------------------------------------------------
(* Option and Result *)

None == <<>>
Some(x) == <<x>>
IsSome(o) == Len(o) = 1
Unwrap(o) == o[1]

Ok(x) == [ok |-> TRUE, val |-> <<x>>, err |-> ""]
Err(e) == [ok |-> FALSE, val |-> <<>>, err |-> e]
Value(r) == r.val[1]

----------------------------------------------------------------------------
(* models.rs: the vocabularies.  A variant is its discriminant. *)

Expense == 0
Income == 1
TransactionType == {Expense, Income}

Groceries == 0
Restaurant == 1
Housing == 2
Holidays == 3
Shopping == 4
Entertainment == 5
Other == 6
TransactionCategory == {Groceries, Restaurant, Housing, Holidays, Shopping, Entertainment, Other}

TransactionType_to_string(k) ==
    CASE k = Expense -> "Expense"
      [] k = Income -> "Income"

TransactionType_from_str_default(s) ==
    CASE s = "Expense" -> Ok(Expense)
      [] s = "Income" -> Ok(Income)
      [] OTHER -> Ok(Expense)

TransactionType_from_str(s) ==
    CASE s = "Expense" -> Ok(Expense)
      [] s = "Income" -> Ok(Income)
      [] OTHER -> Err("Invalid transaction type")

TransactionCategory_to_string_shared(k) ==
    CASE k = Groceries -> "Groceries"
      [] k = Restaurant -> "Restaurant"
      [] k = Housing -> "Housing"
      [] k = Holidays -> "Holidays"
      [] k = Shopping -> "Shopping"
      [] k = Entertainment -> "Shopping"
      [] k = Other -> "Other"

TransactionCategory_to_string(k) ==
    CASE k = Groceries -> "Groceries"
      [] k = Restaurant -> "Restaurant"
      [] k = Housing -> "Housing"
      [] k = Holidays -> "Holidays"
      [] k = Shopping -> "Shopping"
      [] k = Entertainment -> "Entertainment"
      [] k = Other -> "Other"

TransactionCategory_from_str(s) ==
    CASE s = "Groceries" -> Ok(Groceries)
      [] s = "Restaurant" -> Ok(Restaurant)
      [] s = "Housing" -> Ok(Housing)
      [] s = "Holidays" -> Ok(Holidays)
      [] s = "Shopping" -> Ok(Shopping)
      [] s = "Entertainment" -> Ok(Entertainment)
      [] s = "Other" -> Ok(Other)
      [] OTHER -> Err("Invalid transaction category")

\* the description supplied is dropped
TransactionCreate_drops_description(user_id, transaction_type, amount, category, description) ==
    [user_id |-> user_id,
     transaction_type |-> transaction_type,
     amount |-> amount,
     category |-> IF IsSome(category) THEN Unwrap(category) ELSE Other,
     description |-> ""]

\* TransactionCreate::new
TransactionCreate(user_id, transaction_type, amount, category, description) ==
    [user_id |-> user_id,
     transaction_type |-> transaction_type,
     amount |-> amount,
     category |-> IF IsSome(category) THEN Unwrap(category) ELSE Other,
     description |-> IF IsSome(description) THEN Unwrap(description) ELSE ""]

\* TransactionQuery::new
TransactionQuery(id, user_id, transaction_type, amount, category, description, created_at, updated_at) ==
    [id |-> id, user_id |-> user_id, transaction_type |-> transaction_type,
     amount |-> amount, category |-> category, description |-> description,
     created_at |-> created_at, updated_at |-> updated_at]

----------------------------------------------------------------------------
(* queries.rs: create_transaction *)

\* the magnitude is not taken
abs_missing(a) == a

\* f64::abs
abs(a) == IF a < 0 THEN -a ELSE a

\* the sign is taken from the raw amount instead of the kind
normalized_amount_raw_sign(transaction_type, amount) ==
    CASE transaction_type = Expense -> (-1) * amount
      [] transaction_type = Income -> amount

\* the match of create_transaction
normalized_amount(transaction_type, amount) ==
    CASE transaction_type = Expense -> (-1) * abs(amount)
      [] transaction_type = Income -> abs(amount)

\* the newest row is overwritten instead of a row being added
insert_transaction_overwrite(table, t) ==
    IF table = <<>> THEN table
    ELSE [table EXCEPT ![Len(table)] =
             [id |-> Len(table),
              user_id |-> t.user_id,
              transaction_type |-> TransactionType_to_string(t.transaction_type),
              amount |-> normalized_amount(t.transaction_type, t.amount),
              category |-> TransactionCategory_to_string(t.category),
              description |-> t.description,
              created_at |-> Len(table),
              last_updated_at |-> Len(table) + 1]]

\* the row the INSERT of create_transaction adds: id, created_at and
\* last_updated_at are the table's defaults
insert_transaction(table, t) ==
    Append(table,
           [id |-> Len(table) + 1,
            user_id |-> t.user_id,
            transaction_type |-> TransactionType_to_string(t.transaction_type),
            amount |-> normalized_amount(t.transaction_type, t.amount),
            category |-> TransactionCategory_to_string(t.category),
            description |-> t.description,
            created_at |-> Len(table) + 1,
            last_updated_at |-> Len(table) + 1])

----------------------------------------------------------------------------
(* queries.rs: the query builder of get_transactions.  The SQL text is the  *)
(* sequence of the pieces pushed; push_bind pushes the next placeholder and *)
(* records the bound argument.                                              *)

\* bound arguments, by the SQL type they are sent as
Uuid(n) == [ty |-> "uuid", n |-> n, s |-> ""]
Text(s) == [ty |-> "text", n |-> 0, s |-> s]
Numeric(n) == [ty |-> "numeric", n |-> n, s |-> ""]
Timestamptz(n) == [ty |-> "timestamptz", n |-> n, s |-> ""]

Placeholders == <<"$1", "$2", "$3", "$4", "$5", "$6", "$7">>

\* QueryBuilder::new
QueryBuilder(init) == [sql |-> <<init>>, args |-> <<>>, where_is_inserted |-> FALSE]

\* QueryBuilder::push
push(b, text) == [b EXCEPT !.sql = Append(@, text)]

\* QueryBuilder::push_bind
push_bind(b, value) ==
    [b EXCEPT !.sql = Append(@, Placeholders[Len(b.args) + 1]),
              !.args = Append(@, value)]

\* the flag is never set: every clause is introduced with WHERE
push_where_or_and_no_flag(b) == push(b, " WHERE")

push_where_or_and(b) ==
    IF ~b.where_is_inserted
    THEN [push(b, " WHERE") EXCEPT !.where_is_inserted = TRUE]
    ELSE push(b, " AND")

\* one `if let Some(v) = filter { push_where_or_and; push(text).push_bind(v) }`
clause(b, filter, text, value) ==
    IF IsSome(filter) THEN push_bind(push(push_where_or_and(b), text), value) ELSE b

\* the amount bounds are compared with created_at and the time bounds with amount
build_query_swapped(user_id, category, transaction_type, amount_min, amount_max, start_timestamp, end_timestamp) ==
    LET b0 == QueryBuilder("SELECT * FROM transactions")
        b1 == clause(b0, user_id, " user_id = ", Uuid(user_id[1]))
        b2 == clause(b1, category, " category = ",
                     Text(TransactionCategory_to_string(category[1])))
        b3 == clause(b2, transaction_type, " transaction_type = ",
                     Text(TransactionType_to_string(transaction_type[1])))
        b4 == clause(b3, start_timestamp, " amount >= ", Numeric(start_timestamp[1]))
        b5 == clause(b4, end_timestamp, " amount <= ", Numeric(end_timestamp[1]))
        b6 == clause(b5, amount_min, " created_at >= ", Timestamptz(amount_min[1]))
        b7 == clause(b6, amount_max, " created_at <= ", Timestamptz(amount_max[1]))
    IN  [sql |-> b7.sql, args |-> b7.args]

\* the amount clauses are emitted before the time clauses
build_query_amount_first(user_id, category, transaction_type, amount_min, amount_max, start_timestamp, end_timestamp) ==
    LET b0 == QueryBuilder("SELECT * FROM transactions")
        b1 == clause(b0, user_id, " user_id = ", Uuid(user_id[1]))
        b2 == clause(b1, category, " category = ",
                     Text(TransactionCategory_to_string(category[1])))
        b3 == clause(b2, transaction_type, " transaction_type = ",
                     Text(TransactionType_to_string(transaction_type[1])))
        b4 == clause(b3, amount_min, " amount >= ", Numeric(amount_min[1]))
        b5 == clause(b4, amount_max, " amount <= ", Numeric(amount_max[1]))
        b6 == clause(b5, start_timestamp, " created_at >= ", Timestamptz(start_timestamp[1]))
        b7 == clause(b6, end_timestamp, " created_at <= ", Timestamptz(end_timestamp[1]))
    IN  [sql |-> b7.sql, args |-> b7.args]

\* get_transactions, up to query.build()
build_query(user_id, category, transaction_type, amount_min, amount_max, start_timestamp, end_timestamp) ==
    LET b0 == QueryBuilder("SELECT * FROM transactions")
        b1 == clause(b0, user_id, " user_id = ", Uuid(user_id[1]))
        b2 == clause(b1, category, " category = ",
                     Text(TransactionCategory_to_string(category[1])))
        b3 == clause(b2, transaction_type, " transaction_type = ",
                     Text(TransactionType_to_string(transaction_type[1])))
        b4 == clause(b3, start_timestamp, " created_at >= ", Timestamptz(start_timestamp[1]))
        b5 == clause(b4, end_timestamp, " created_at <= ", Timestamptz(end_timestamp[1]))
        b6 == clause(b5, amount_min, " amount >= ", Numeric(amount_min[1]))
        b7 == clause(b6, amount_max, " amount <= ", Numeric(amount_max[1]))
    IN  [sql |-> b7.sql, args |-> b7.args]

----------------------------------------------------------------------------
(* The storage side of fetch_all: the SQL text is read back piece by piece. *)

Comparisons == {" user_id = ", " category = ", " transaction_type = ",
                " created_at >= ", " created_at <= ", " amount >= ", " amount <= "}

\* SELECT * FROM transactions [WHERE c $1 [AND c $2 ...]]
sql_is_valid(q) ==
    /\ Len(q.sql) = 1 + 3 * Len(q.args)
    /\ q.sql[1] = "SELECT * FROM transactions"
    /\ \A k \in 1..Len(q.args) :
          /\ q.sql[3 * k - 1] = (IF k = 1 THEN " WHERE" ELSE " AND")
          /\ q.sql[3 * k] \in Comparisons
          /\ q.sql[3 * k + 1] = Placeholders[k]

row_satisfies(row, comparison, arg) ==
    CASE comparison = " user_id = " -> arg.ty = "uuid" /\ row.user_id = arg.n
      [] comparison = " category = " -> arg.ty = "text" /\ row.category = arg.s
      [] comparison = " transaction_type = " -> arg.ty = "text" /\ row.transaction_type = arg.s
      [] comparison = " created_at >= " -> arg.ty = "timestamptz" /\ row.created_at >= arg.n
      [] comparison = " created_at <= " -> arg.ty = "timestamptz" /\ row.created_at <= arg.n
      [] comparison = " amount >= " -> arg.ty = "numeric" /\ row.amount >= arg.n
      [] comparison = " amount <= " -> arg.ty = "numeric" /\ row.amount <= arg.n

Range(seq) == {seq[i] : i \in DOMAIN seq}

selected_rows(q, table) ==
    {row \in Range(table) :
        \A k \in 1..Len(q.args) : row_satisfies(row, q.sql[3 * k], q.args[k])}

\* every order in which storage may return the rows of a set (no ORDER BY)
orderings(rows) ==
    {p \in [1..Cardinality(rows) -> rows] : \A i, j \in DOMAIN p : p[i] = p[j] => i = j}

\* the results fetch_all may give: an error for a malformed statement or a
\* failing connection, else the selected rows in any order
fetch_all(q, table) ==
    IF sql_is_valid(q)
    THEN {Ok(rows) : rows \in orderings(selected_rows(q, table))} \cup {Err("storage error")}
    ELSE {Err("syntax error")}

----------------------------------------------------------------------------
(* queries.rs: get_transactions and get_user_transaction_sum.  A call gives *)
(* the set of its possible outcomes: the query it built, what storage       *)
(* returned, its result and the number of storage round trips.              *)

NoQuery == [sql |-> <<>>, args |-> <<>>]

Outcome(q, f, r, n) == [query |-> q, fetched |-> f, result |-> r, dbCalls |-> n]

\* Row::try_get fails when the row has no such column
has_column(row, column) == column \in DOMAIN row

\* map_row_to_transaction(Some(row)): the columns are read in the order of the
\* code, each with `?`
map_row_to_transaction(row) ==
    IF ~has_column(row, "id") THEN Err("no column id")
    ELSE IF ~has_column(row, "user_id") THEN Err("no column user_id")
    ELSE IF ~has_column(row, "transaction_type") THEN Err("no column transaction_type")
    ELSE IF ~TransactionType_from_str(row.transaction_type).ok
         THEN Err("transaction_type cannot be decoded")
    ELSE IF ~has_column(row, "category") THEN Err("no column category")
    ELSE IF ~TransactionCategory_from_str(row.category).ok
         THEN Err("Could not convert to TransactionCategory enum")
    ELSE IF ~has_column(row, "description") THEN Err("no column description")
    ELSE IF ~has_column(row, "created_at") THEN Err("no column created_at")
    ELSE IF ~has_column(row, "last_updated_at") THEN Err("no column last_updated_at")
    ELSE IF ~has_column(row, "amount") THEN Err("no column amount")
    ELSE Ok(TransactionQuery(row.id, row.user_id,
                             Value(TransactionType_from_str(row.transaction_type)),
                             row.amount,
                             Value(TransactionCategory_from_str(row.category)),
                             row.description, row.created_at, row.last_updated_at))

\* the rows that do not map are skipped
collect_rows_skip_failed(rows) ==
    LET kept == SelectSeq(rows, LAMBDA r : map_row_to_transaction(r).ok)
    IN  Ok([i \in DOMAIN kept |-> Value(map_row_to_transaction(kept[i]))])

\* rows.into_iter().map(map_row_to_transaction).collect::<Result<Vec<_>>>()
collect_rows(rows) ==
    IF \E i \in DOMAIN rows : ~map_row_to_transaction(rows[i]).ok
    THEN LET first == CHOOSE i \in DOMAIN rows :
                          /\ ~map_row_to_transaction(rows[i]).ok
                          /\ \A j \in 1..(i - 1) : map_row_to_transaction(rows[j]).ok
         IN  Err(map_row_to_transaction(rows[first]).err)
    ELSE Ok([i \in DOMAIN rows |-> Value(map_row_to_transaction(rows[i]))])

\* a failed fetch is tried once more
get_transactions_retry(table, user_id, category, transaction_type, amount_min, amount_max, start_timestamp, end_timestamp) ==
    LET q == build_query(user_id, category, transaction_type, amount_min, amount_max,
                         start_timestamp, end_timestamp)
        outcome(f, n) == Outcome(q, f, IF f.ok THEN collect_rows(Value(f)) ELSE Err(f.err), n)
    IN  UNION {IF f.ok THEN {outcome(f, 1)} ELSE {outcome(g, 2) : g \in fetch_all(q, table)} :
                  f \in fetch_all(q, table)}

get_transactions(table, user_id, category, transaction_type, amount_min, amount_max, start_timestamp, end_timestamp) ==
    LET q == build_query(user_id, category, transaction_type, amount_min, amount_max,
                         start_timestamp, end_timestamp)
    IN  {Outcome(q, f, IF f.ok THEN collect_rows(Value(f)) ELSE Err(f.err), 1) :
            f \in fetch_all(q, table)}

RECURSIVE sum_from(_, _)
\* for tr in transactions.iter() { total_sum += tr.amount }
sum_from(total_sum, trs) ==
    IF trs = <<>> THEN total_sum
    ELSE sum_from(total_sum + Head(trs).amount, Tail(trs))

\* only the first row is added
sum_first_only(o) ==
    IF ~o.result.ok THEN Outcome(o.query, o.fetched, Err(o.result.err), o.dbCalls)
    ELSE Outcome(o.query, o.fetched,
                 Ok(IF Value(o.result) = <<>> THEN 0 ELSE Head(Value(o.result)).amount),
                 o.dbCalls)

\* the tail of get_user_transaction_sum: `?` on the fetch, then the fold from zero
sum_outcome(o) ==
    IF ~o.result.ok THEN Outcome(o.query, o.fetched, Err(o.result.err), o.dbCalls)
    ELSE Outcome(o.query, o.fetched, Ok(sum_from(0, Value(o.result))), o.dbCalls)

\* the user_id filter is not passed on: the sum runs over every user's rows
get_user_transaction_sum_all_users(table, user_id, category, transaction_type, start_timestamp, end_timestamp) ==
    {sum_outcome(o) :
        o \in get_transactions(table, None, category, transaction_type,
                               None, None, start_timestamp, end_timestamp)}

get_user_transaction_sum(table, user_id, category, transaction_type, start_timestamp, end_timestamp) ==
    {sum_outcome(o) :
        o \in get_transactions(table, Some(user_id), category, transaction_type,
                               None, None, start_timestamp, end_timestamp)}

----------------------------------------------------------------------------
(* queries.rs: user_queries and create_transaction *)

\* argon2 hash_password: the stored text is not the password
hash_password(password) == [argon2 |-> password]

\* the unique constraint on users.email
email_is_unique(table, email) == \A i \in DOMAIN table : table[i].email # email

\* create_user: the INSERT adds one row, or fails and adds none
create_user(table, user) ==
    {[result |-> Err("storage error"), users |-> table]} \cup
    (IF email_is_unique(table, user.email)
     THEN {[result |-> Ok(user.name),
            users |-> Append(table, [id |-> Len(table) + 1,
                                     email |-> user.email,
                                     name |-> user.name,
                                     password |-> hash_password(user.password),
                                     created_at |-> Len(table) + 1,
                                     updated_at |-> Len(table) + 1])]}
     ELSE {})

\* a missing row is mapped to a default user instead of an error
map_row_to_user_default(row) ==
    IF IsSome(row) THEN Ok(Unwrap(row))
    ELSE Ok([id |-> 0, email |-> "", name |-> "", password |-> hash_password(""),
             created_at |-> 0, updated_at |-> 0])

\* map_row_to_user
map_row_to_user(row) ==
    IF IsSome(row) THEN Ok(Unwrap(row)) ELSE Err("User could not be created from row")

\* the WHERE clause is missing: the first row of the table is returned
fetch_optional_user_first(table, email) ==
    IF table # <<>> THEN Some(table[1]) ELSE None

\* ... WHERE email = $1 LIMIT 1, fetch_optional
fetch_optional_user(table, email) ==
    IF \E i \in DOMAIN table : table[i].email = email
    THEN Some(table[CHOOSE i \in DOMAIN table : table[i].email = email])
    ELSE None

get_user(table, email) ==
    {map_row_to_user(fetch_optional_user(table, email)), Err("storage error")}

\* get_all_users: every row, in the order storage returns them, each mapped
get_all_users(table) ==
    {Ok([i \in DOMAIN rows |-> Value(map_row_to_user(Some(rows[i])))]) :
        rows \in orderings(Range(table))} \cup {Err("storage error")}

\* create_transaction: the INSERT adds one row, or fails and adds none
create_transaction(table, t) ==
    {[result |-> Ok(t.user_id), transactions |-> insert_transaction(table, t)],
     [result |-> Err("storage error"), transactions |-> table]}

----------------------------------------------------------------------------
(* main.rs: the handlers.  A handler gives the set of its possible outcomes. *)

Response(status, body) == [status |-> status, body |-> body]

NoFetch == Err("no fetch")

Handled(resp, q, f, n) == [response |-> resp, query |-> q, fetched |-> f, dbCalls |-> n]

create_user_handler(table, req) ==
    {[response |-> IF c.result.ok
                   THEN Response(200, [message |-> "User created successfully",
                                       name |-> Value(c.result)])
                   ELSE Response(500, <<>>),
      users |-> c.users, dbCalls |-> 1] :
        c \in create_user(table, [email |-> req.email, name |-> req.name,
                                  password |-> req.password])}

get_user_handler(table, email) ==
    {[response |-> IF u.ok
                   THEN Response(200, [message |-> "User retrieved successfully",
                                       user |-> [email |-> Value(u).email,
                                                 name |-> Value(u).name,
                                                 created_at |-> Value(u).created_at,
                                                 updated_at |-> Value(u).updated_at]])
                   ELSE Response(500, <<>>),
      fetched |-> u,
      dbCalls |-> 1] : u \in get_user(table, email)}

\* "users": users serializes every field of UserQuery
get_users_handler(table) ==
    {[response |-> IF us.ok
                   THEN Response(200, [message |-> "Users retrieved successfully",
                                       users |-> Value(us)])
                   ELSE Response(500, <<>>),
      dbCalls |-> 1] : us \in get_all_users(table)}

\* a category that does not parse is replaced by Other instead of refused
create_transaction_handler_lenient(users_table, table, req) ==
    LET transaction_type == TransactionType_from_str(req.transaction_type)
        category == IF IsSome(req.category)
                       /\ TransactionCategory_from_str(Unwrap(req.category)).ok
                    THEN TransactionCategory_from_str(Unwrap(req.category))
                    ELSE Ok(Other)
        unchanged(status, n) ==
            [response |-> Response(status, <<>>), transactions |-> table, dbCalls |-> n]
    IN  IF ~transaction_type.ok THEN {unchanged(400, 0)}
        ELSE IF ~category.ok THEN {unchanged(400, 0)}
        ELSE UNION {
            IF ~user.ok THEN {unchanged(500, 1)}
            ELSE {IF c.result.ok
                  THEN [response |-> Response(200, [message |-> "Transaction created successfully"]),
                        transactions |-> c.transactions, dbCalls |-> 2]
                  ELSE unchanged(500, 2) :
                     c \in create_transaction(table,
                              TransactionCreate(Value(user).id, Value(transaction_type),
                                  req.amount,
                                  IF IsSome(req.category) THEN Some(Value(category)) ELSE None,
                                  req.description))}
            : user \in get_user(users_table, req.user_email)}

create_transaction_handler(users_table, table, req) ==
    LET transaction_type == TransactionType_from_str(req.transaction_type)
        category == IF IsSome(req.category)
                    THEN TransactionCategory_from_str(Unwrap(req.category))
                    ELSE Ok(Other)
        unchanged(status, n) ==
            [response |-> Response(status, <<>>), transactions |-> table, dbCalls |-> n]
    IN  IF ~transaction_type.ok THEN {unchanged(400, 0)}
        ELSE IF ~category.ok THEN {unchanged(400, 0)}
        ELSE UNION {
            IF ~user.ok THEN {unchanged(500, 1)}
            ELSE {IF c.result.ok
                  THEN [response |-> Response(200, [message |-> "Transaction created successfully"]),
                        transactions |-> c.transactions, dbCalls |-> 2]
                  ELSE unchanged(500, 2) :
                     c \in create_transaction(table,
                              TransactionCreate(Value(user).id, Value(transaction_type),
                                  req.amount,
                                  IF IsSome(req.category) THEN Some(Value(category)) ELSE None,
                                  req.description))}
            : user \in get_user(users_table, req.user_email)}

\* the category and transaction_type parameters, parsed as both GET handlers do
parse_category(p) ==
    IF IsSome(p.category)
    THEN (IF TransactionCategory_from_str(Unwrap(p.category)).ok
          THEN Ok(Some(Value(TransactionCategory_from_str(Unwrap(p.category)))))
          ELSE Err("category"))
    ELSE Ok(None)

parse_transaction_type(p) ==
    IF IsSome(p.transaction_type)
    THEN (IF TransactionType_from_str(Unwrap(p.transaction_type)).ok
          THEN Ok(Some(Value(TransactionType_from_str(Unwrap(p.transaction_type)))))
          ELSE Err("transaction_type"))
    ELSE Ok(None)

get_transactions_handler(table, p) ==
    IF ~parse_category(p).ok THEN {Handled(Response(500, <<>>), NoQuery, NoFetch, 0)}
    ELSE IF ~parse_transaction_type(p).ok THEN {Handled(Response(500, <<>>), NoQuery, NoFetch, 0)}
    ELSE {Handled(IF o.result.ok
                  THEN Response(200, [message |-> "Transactions retrieved successfully",
                                      users |-> Value(o.result)])
                  ELSE Response(500, <<>>),
                  o.query, o.fetched, o.dbCalls) :
            o \in get_transactions(table, p.user_id, Value(parse_category(p)),
                                   Value(parse_transaction_type(p)), p.amount_min,
                                   p.amount_max, p.start_timestamp, p.end_timestamp)}

\* the user_id check is missing and the sum runs over whatever the other filters select
get_amount_handler_no_check(table, p) ==
    IF ~parse_category(p).ok THEN {Handled(Response(500, <<>>), NoQuery, NoFetch, 0)}
    ELSE IF ~parse_transaction_type(p).ok THEN {Handled(Response(500, <<>>), NoQuery, NoFetch, 0)}
    ELSE {Handled(IF o.result.ok
                  THEN Response(200, [message |-> "Transactions sum retrieved successfully",
                                      users |-> Value(o.result)])
                  ELSE Response(500, <<>>),
                  o.query, o.fetched, o.dbCalls) :
            o \in {sum_outcome(g) :
                     g \in get_transactions(table, p.user_id, Value(parse_category(p)),
                                            Value(parse_transaction_type(p)), None, None,
                                            p.start_timestamp, p.end_timestamp)}}

get_amount_handler(table, p) ==
    IF ~IsSome(p.user_id) THEN {Handled(Response(500, <<>>), NoQuery, NoFetch, 0)}
    ELSE IF ~parse_category(p).ok THEN {Handled(Response(500, <<>>), NoQuery, NoFetch, 0)}
    ELSE IF ~parse_transaction_type(p).ok THEN {Handled(Response(500, <<>>), NoQuery, NoFetch, 0)}
    ELSE {Handled(IF o.result.ok
                  THEN Response(200, [message |-> "Transactions sum retrieved successfully",
                                      users |-> Value(o.result)])
                  ELSE Response(500, <<>>),
                  o.query, o.fetched, o.dbCalls) :
            o \in get_user_transaction_sum(table, Unwrap(p.user_id),
                                           Value(parse_category(p)),
                                           Value(parse_transaction_type(p)),
                                           p.start_timestamp, p.end_timestamp)}

----------------------------------------------------------------------------
(* The requests the clients send *)

Emails == {"alice@example.com", "bob@example.com"}

UserIds == 1..Cardinality(Emails)

\* the amounts of the creation requests, one of each sign
RawAmounts == {-2, 2}

TypeStrings == {"Expense", "Income", "income"}

CategoryStrings == {"Groceries", "Snacks"}

\* the strings the vocabularies are asked to parse
Strings == {"Expense", "Income", "income", "EXPENSE", "", "Groceries", "Restaurant",
            "Housing", "Holidays", "Shopping", "Entertainment", "Other", "OTHER",
            "other", "Snacks"}

Optional(S) == {None} \cup {Some(x) : x \in S}

CreateUserRequests == [email : Emails, name : {"name"}, password : {"secret"}]

CreateTransactionRequests ==
    [user_email : Emails, transaction_type : TypeStrings, amount : RawAmounts,
     category : Optional(CategoryStrings), description : {None}]

\* CreateTransactionRequest with and without a description
DescribedTransactionRequests ==
    [user_email : Emails, transaction_type : {"Expense", "Income"}, amount : {MaxAmount},
     category : Optional(CategoryStrings), description : Optional({"rent"})]

\* TransactionGetParameters, as the GET handlers read it
TransactionGetParameters ==
    [user_id : Optional(UserIds),
     category : Optional(CategoryStrings),
     transaction_type : Optional({"Expense", "income"}),
     amount_min : Optional({2}),
     amount_max : Optional({-2}),
     start_timestamp : Optional({2}),
     end_timestamp : Optional({1})]

----------------------------------------------------------------------------
(* The state machine: one request is handled at a time; Complete ends it.   *)

NoRequest == <<>>
NoResponse == Response(0, <<>>)

\* run_migrations has not run and there is no migrations directory
NoRun == [ok |-> TRUE, error |-> "not run", filename |-> <<>>, statement |-> 0]

NotMigrated ==
    /\ directory = <<>>
    /\ sqlx_migrations = {}
    /\ schema = <<>>
    /\ executed = <<>>
    /\ migrated = NoRun

Init ==
    /\ users = <<>>
    /\ transactions = <<>>
    /\ op = "idle"
    /\ request = NoRequest
    /\ query = NoQuery
    /\ fetched = NoFetch
    /\ response = NoResponse
    /\ dbCalls = 0
    /\ ledger = [e \in Emails |-> 0]
    /\ NotMigrated

CreateUser ==
    /\ op = "idle"
    /\ \E req \in CreateUserRequests : \E o \in create_user_handler(users, req) :
          /\ op' = "create_user"
          /\ request' = req
          /\ users' = o.users
          /\ response' = o.response
          /\ dbCalls' = o.dbCalls
    /\ UNCHANGED migration_vars
    /\ UNCHANGED <<transactions, query, fetched, ledger>>

GetUser ==
    /\ op = "idle"
    /\ \E email \in Emails : \E o \in get_user_handler(users, email) :
          /\ op' = "get_user"
          /\ request' = email
          /\ fetched' = o.fetched
          /\ response' = o.response
          /\ dbCalls' = o.dbCalls
    /\ UNCHANGED migration_vars
    /\ UNCHANGED <<users, transactions, query, ledger>>

GetUsers ==
    /\ op = "idle"
    /\ \E o \in get_users_handler(users) :
          /\ op' = "get_users"
          /\ request' = NoRequest
          /\ response' = o.response
          /\ dbCalls' = o.dbCalls
    /\ UNCHANGED migration_vars
    /\ UNCHANGED <<users, transactions, query, fetched, ledger>>

\* what a creation request asks to add to its user's total: the magnitude of
\* its amount, negative for an Expense
SignedMagnitude(req) ==
    LET magnitude == CHOOSE m \in 0..MaxAmount : m = req.amount \/ m = -req.amount
    IN  IF req.transaction_type = "Expense" THEN -magnitude ELSE magnitude

CreateTransaction ==
    /\ op = "idle"
    /\ \E req \in CreateTransactionRequests :
       \E o \in create_transaction_handler(users, transactions, req) :
          /\ Len(o.transactions) <= MaxTxns
          /\ op' = "create_transaction"
          /\ request' = req
          /\ transactions' = o.transactions
          /\ response' = o.response
          /\ dbCalls' = o.dbCalls
          /\ ledger' = IF o.response.status = 200
                       THEN [ledger EXCEPT ![req.user_email] = @ + SignedMagnitude(req)]
                       ELSE ledger
    /\ UNCHANGED migration_vars
    /\ UNCHANGED <<users, query, fetched>>

GetTransactions ==
    /\ op = "idle"
    /\ \E p \in TransactionGetParameters : \E o \in get_transactions_handler(transactions, p) :
          /\ op' = "get_transactions"
          /\ request' = p
          /\ query' = o.query
          /\ fetched' = o.fetched
          /\ response' = o.response
          /\ dbCalls' = o.dbCalls
    /\ UNCHANGED migration_vars
    /\ UNCHANGED <<users, transactions, ledger>>

GetAmount ==
    /\ op = "idle"
    /\ \E p \in TransactionGetParameters : \E o \in get_amount_handler(transactions, p) :
          /\ op' = "get_amount"
          /\ request' = p
          /\ query' = o.query
          /\ fetched' = o.fetched
          /\ response' = o.response
          /\ dbCalls' = o.dbCalls
    /\ UNCHANGED migration_vars
    /\ UNCHANGED <<users, transactions, ledger>>

\* TransactionType::from_str / TransactionCategory::from_str applied to a string
FromStr ==
    /\ op = "idle"
    /\ \E s \in Strings :
          \/ /\ op' = "TransactionType::from_str"
             /\ request' = s
             /\ response' = TransactionType_from_str(s)
          \/ /\ op' = "TransactionCategory::from_str"
             /\ request' = s
             /\ response' = TransactionCategory_from_str(s)
    /\ UNCHANGED migration_vars
    /\ UNCHANGED <<users, transactions, query, fetched, dbCalls, ledger>>

\* the match of create_transaction applied to a kind and a raw amount
Normalize ==
    /\ op = "idle"
    /\ \E k \in TransactionType : \E a \in (-MaxAmount)..MaxAmount :
          /\ op' = "normalized_amount"
          /\ request' = [transaction_type |-> k, amount |-> a]
          /\ response' = normalized_amount(k, a)
    /\ UNCHANGED migration_vars
    /\ UNCHANGED <<users, transactions, query, fetched, dbCalls, ledger>>

\* to_string applied to a variant
Canonical ==
    /\ op = "idle"
    /\ \/ \E k \in TransactionType :
             /\ op' = "TransactionType::to_string"
             /\ request' = k
             /\ response' = TransactionType_to_string(k)
       \/ \E k \in TransactionCategory :
             /\ op' = "TransactionCategory::to_string"
             /\ request' = k
             /\ response' = TransactionCategory_to_string(k)
    /\ UNCHANGED migration_vars
    /\ UNCHANGED <<users, transactions, query, fetched, dbCalls, ledger>>

\* the response is sent and the request's values are dropped
Complete ==
    /\ op # "idle"
    /\ op' = "idle"
    /\ request' = NoRequest
    /\ query' = NoQuery
    /\ fetched' = NoFetch
    /\ response' = NoResponse
    /\ dbCalls' = 0
    /\ UNCHANGED migration_vars
    /\ UNCHANGED <<users, transactions, ledger>>

Next ==
    \/ CreateUser
    \/ GetUser
    \/ GetUsers
    \/ CreateTransaction
    \/ GetTransactions
    \/ GetAmount
    \/ Normalize
    \/ FromStr
    \/ Canonical
    \/ Complete

Spec == Init /\ [][Next]_vars

----------------------------------------------------------------------------
(* The same handlers over a store that other writers share: the rows of the *)
(* transactions table need not have been written by create_transaction.     *)
(* A row may carry a label outside the vocabularies or lack a column that   *)
(* map_row_to_transaction reads.                                            *)

RowKinds == {"income", "expense", "unknown kind", "unknown category", "missing column"}

\* the row of the given kind at position i of the table, owned by user 1
SharedRow(i, kind) ==
    LET row == [id |-> i, user_id |-> 1,
                transaction_type |-> CASE kind = "expense" -> "Expense"
                                       [] kind = "unknown kind" -> "Transfer"
                                       [] OTHER -> "Income",
                amount |-> IF kind = "expense" THEN -2 ELSE 2,
                category |-> CASE kind = "expense" -> "Groceries"
                               [] kind = "unknown category" -> "Snacks"
                               [] OTHER -> "Other",
                description |-> "",
                created_at |-> i,
                last_updated_at |-> i]
    IN  IF kind = "missing column"
        THEN [c \in DOMAIN row \ {"last_updated_at"} |-> row[c]]
        ELSE row

SharedTables ==
    UNION {{[i \in 1..n |-> SharedRow(i, kinds[i])] : kinds \in [1..n -> RowKinds]} :
              n \in 0..MaxTxns}

InitSharedStore ==
    /\ users = <<[id |-> 1, email |-> "alice@example.com", name |-> "name",
                  password |-> hash_password("secret"), created_at |-> 1, updated_at |-> 1]>>
    /\ transactions \in SharedTables
    /\ op = "idle"
    /\ request = NoRequest
    /\ query = NoQuery
    /\ fetched = NoFetch
    /\ response = NoResponse
    /\ dbCalls = 0
    /\ ledger = [e \in Emails |-> 0]
    /\ NotMigrated

NextSharedStore ==
    \/ CreateTransaction
    \/ GetTransactions
    \/ GetAmount
    \/ Complete

SpecSharedStore == InitSharedStore /\ [][NextSharedStore]_vars

----------------------------------------------------------------------------
(* The sum alone, over every store that creations by two registered users   *)
(* can have written.                                                        *)

\* an expense on groceries or an income of no stated category, per user
Creates ==
    {TransactionCreate(user_id, transaction_type, MaxAmount,
                       IF transaction_type = Expense THEN Some(Groceries) ELSE None, None) :
        user_id \in UserIds, transaction_type \in {Expense, Income}}

RECURSIVE insert_all(_, _)
\* the table after create_transaction has inserted each of ts in turn
insert_all(table, ts) ==
    IF ts = <<>> THEN table
    ELSE insert_all(insert_transaction(table, Head(ts)), Tail(ts))

Stores == {insert_all(<<>>, ts) : ts \in UNION {[1..n -> Creates] : n \in 0..MaxTxns}}

InitSum ==
    /\ users = [i \in UserIds |->
                  [id |-> i,
                   email |-> IF i = 1 THEN "alice@example.com" ELSE "bob@example.com",
                   name |-> "name", password |-> hash_password("secret"),
                   created_at |-> i, updated_at |-> i]]
    /\ transactions \in Stores
    /\ op = "idle"
    /\ request = NoRequest
    /\ query = NoQuery
    /\ fetched = NoFetch
    /\ response = NoResponse
    /\ dbCalls = 0
    /\ ledger = [e \in Emails |-> 0]
    /\ NotMigrated

NextSum == GetAmount \/ Complete

SpecSum == InitSum /\ [][NextSum]_vars

----------------------------------------------------------------------------
(* Creation alone: the users register and the transactions are created with *)
(* and without a category and a description.                                *)

CreateDescribedTransaction ==
    /\ op = "idle"
    /\ \E req \in DescribedTransactionRequests :
       \E o \in create_transaction_handler(users, transactions, req) :
          /\ Len(o.transactions) <= MaxTxns
          /\ op' = "create_transaction"
          /\ request' = req
          /\ transactions' = o.transactions
          /\ response' = o.response
          /\ dbCalls' = o.dbCalls
          /\ ledger' = IF o.response.status = 200
                       THEN [ledger EXCEPT ![req.user_email] = @ + SignedMagnitude(req)]
                       ELSE ledger
    /\ UNCHANGED migration_vars
    /\ UNCHANGED <<users, query, fetched>>

NextCreate == CreateUser \/ CreateDescribedTransaction \/ Complete

SpecCreate == Init /\ [][NextCreate]_vars

----------------------------------------------------------------------------
(* database.rs: run_migrations.  A file name is the sequence of its         *)
(* characters; the text of a file is the sequence of its lines, with ";"    *)
(* where the text has a semicolon.  A statement is executed inside the      *)
(* transaction of its file: the transaction works on a copy of the database *)
(* that commit installs and rollback discards.                              *)

Digits == <<"0", "1", "2", "3", "4", "5", "6", "7", "8", "9">>

is_ascii_digit(c) == \E d \in DOMAIN Digits : Digits[d] = c

\* the byte of a character of a file name
byte(c) ==
    CASE c = "." -> 46
      [] is_ascii_digit(c) -> 47 + (CHOOSE d \in DOMAIN Digits : Digits[d] = c)
      [] c = "_" -> 95
      [] c = "a" -> 97
      [] c = "b" -> 98
      [] c = "l" -> 108
      [] c = "q" -> 113
      [] c = "s" -> 115
      [] c = "t" -> 116
      [] c = "x" -> 120

\* the files a migrations directory may hold: 10_a.sql, 1_a.sql, 1_b.sql,
\* 2_b.sql, a.sql, b.sql and 1_a.txt
FileNames ==
    {<<"1", "0", "_", "a", ".", "s", "q", "l">>,
     <<"1", "_", "a", ".", "s", "q", "l">>,
     <<"1", "_", "b", ".", "s", "q", "l">>,
     <<"2", "_", "b", ".", "s", "q", "l">>,
     <<"a", ".", "s", "q", "l">>,
     <<"b", ".", "s", "q", "l">>,
     <<"1", "_", "a", ".", "t", "x", "t">>}

\* no directory, or a directory of at most MaxFiles files
Directories ==
    {None} \cup {Some(files) : files \in {d \in SUBSET FileNames : Cardinality(d) <= MaxFiles}}

\* Path::extension: what follows the last "." of the file name
extension(path) ==
    IF \E i \in DOMAIN path : i > 1 /\ path[i] = "."
    THEN LET dot == CHOOSE i \in DOMAIN path :
                        /\ path[i] = "."
                        /\ \A j \in (i + 1)..Len(path) : path[j] # "."
         IN  Some(SubSeq(path, dot + 1, Len(path)))
    ELSE None

RECURSIVE path_less(_, _)
\* the order of Vec<PathBuf>::sort on the files of one directory
path_less(a, b) ==
    IF b = <<>> THEN FALSE
    ELSE IF a = <<>> THEN TRUE
    ELSE IF byte(Head(a)) # byte(Head(b)) THEN byte(Head(a)) < byte(Head(b))
    ELSE path_less(Tail(a), Tail(b))

\* read_dir, the filter on the extension, then migration_files.sort()
migration_files(files) ==
    LET sql == {path \in files : extension(path) = Some(<<"s", "q", "l">>)}
    IN  CHOOSE p \in orderings(sql) :
            \A i, j \in DOMAIN p : i < j => path_less(p[i], p[j])

RECURSIVE take_while_digit(_)
take_while_digit(chars) ==
    IF chars # <<>> /\ is_ascii_digit(Head(chars))
    THEN <<Head(chars)>> \o take_while_digit(Tail(chars))
    ELSE <<>>

RECURSIVE parse_i64(_, _)
\* str::parse::<i64> of a string of digits, read from the left
parse_i64(value, digits) ==
    IF digits = <<>> THEN value
    ELSE parse_i64(10 * value + (byte(Head(digits)) - 48), Tail(digits))

\* the version of a file name: its leading digits, or 0 when it has none
version(filename) ==
    LET digits == take_while_digit(filename)
    IN  IF digits = <<>> THEN 0 ELSE parse_i64(0, digits)

\* fs::read_to_string: the files named "a" hold two statements and the files
\* named "b" one, among comments and blank pieces
read_to_string(path) ==
    IF \E i \in DOMAIN path : path[i] = "a" /\ i < Len(path) - 3
    THEN <<"-- tables", "CREATE TABLE t (id INT)", ";", "", ";", "-- index", ";",
           "CREATE INDEX i ON t (id)", ";", "">>
    ELSE <<"ALTER TABLE t ADD c INT", ";">>

RECURSIVE split(_, _)
\* sql.split(';'): the pieces between the semicolons, the last one included
split(sql, piece) ==
    IF sql = <<>> THEN <<piece>>
    ELSE IF Head(sql) = ";" THEN <<piece>> \o split(Tail(sql), <<>>)
    ELSE split(Tail(sql), Append(piece, Head(sql)))

is_comment_or_empty(line) == line \in {"", "-- tables", "-- index"}

\* the pieces that are not empty and not comment lines only
statements(sql) ==
    SelectSeq(split(sql, <<>>),
              LAMBDA s : s # <<>> /\ ~(\A i \in DOMAIN s : is_comment_or_empty(s[i])))

\* SELECT success FROM _sqlx_migrations WHERE version = $1, fetch_optional
already_applied(table, v) ==
    IF \E r \in table : r.version = v
    THEN Some((CHOOSE r \in table : r.version = v).success)
    ELSE None

\* INSERT ... VALUES ($1, $2, success) ON CONFLICT (version) DO UPDATE SET success
record_migration(table, v, filename, success) ==
    IF \E r \in table : r.version = v
    THEN {IF r.version = v THEN [r EXCEPT !.success = success] ELSE r : r \in table}
    ELSE table \cup {[version |-> v, description |-> filename, success |-> success]}

Database(table, committed) == [sqlx_migrations |-> table, schema |-> committed]

\* pool.begin, tx.commit and tx.rollback
begin(db) == db
commit(db, tx) == tx
rollback(db, tx) == db

\* the statements 1..n of the file, as executed
Executed(filename, n) == [i \in 1..n |-> [file |-> filename, idx |-> i]]

Returned(ok, error, filename, statement) ==
    [ok |-> ok, error |-> error, filename |-> filename, statement |-> statement]

Ran(result, db, log) == [migrated |-> result, db |-> db, executed |-> log]

RECURSIVE apply_migrations(_, _, _)
\* the loop over migration_files: the outcomes of the rest of the run
apply_migrations(files, db, log) ==
    IF files = <<>> THEN {Ran(Returned(TRUE, "", <<>>, 0), db, log)}
    ELSE
      LET filename == Head(files)
          v == version(filename)
          n == Len(statements(read_to_string(filename)))
          tx == begin(db)
          \* the transaction after statements 1..k have succeeded
          after(k) == [tx EXCEPT !.schema = @ \o Executed(filename, k)]
          \* statement k fails: the failure row is written to the transaction,
          \* or that INSERT fails too and .ok() drops the error; then rollback
          failed(k) ==
              {Ran(Returned(FALSE, "migration failed", filename, k),
                   rollback(db, recorded), log \o Executed(filename, k)) :
                  recorded \in
                      {after(k - 1),
                       [after(k - 1) EXCEPT !.sqlx_migrations =
                           record_migration(@, v, filename, FALSE)]}}
          recorded == [after(n) EXCEPT !.sqlx_migrations =
                          record_migration(@, v, filename, TRUE)]
      IN  \* the SELECT, read_to_string or begin fails
          {Ran(Returned(FALSE, "storage error", <<>>, 0), db, log)}
          \cup
          (IF already_applied(db.sqlx_migrations, v) = Some(TRUE)
           THEN apply_migrations(Tail(files), db, log)
           ELSE UNION {failed(k) : k \in 1..n}
                \cup \* the INSERT of the success row or the commit fails
                   {Ran(Returned(FALSE, "storage error", <<>>, 0), db,
                        log \o Executed(filename, n))}
                \cup apply_migrations(Tail(files), commit(db, recorded),
                                      log \o Executed(filename, n)))

\* run_migrations: CREATE TABLE IF NOT EXISTS _sqlx_migrations, the check of
\* the directory, then the loop
run_migrations(dir, db) ==
    {Ran(Returned(FALSE, "storage error", <<>>, 0), db, <<>>)}
    \cup (IF ~IsSome(dir) THEN {Ran(Returned(TRUE, "", <<>>, 0), db, <<>>)}
          ELSE apply_migrations(migration_files(Unwrap(dir)), db, <<>>))

InitMigrations ==
    /\ users = <<>>
    /\ transactions = <<>>
    /\ op = "idle"
    /\ request = NoRequest
    /\ query = NoQuery
    /\ fetched = NoFetch
    /\ response = NoResponse
    /\ dbCalls = 0
    /\ ledger = [e \in Emails |-> 0]
    /\ directory \in Directories
    /\ sqlx_migrations = {}
    /\ schema = <<>>
    /\ executed = <<>>
    /\ migrated = NoRun

RunMigrations ==
    /\ \E o \in run_migrations(directory, Database(sqlx_migrations, schema)) :
          /\ sqlx_migrations' = o.db.sqlx_migrations
          /\ schema' = o.db.schema
          /\ executed' = o.executed
          /\ migrated' = o.migrated
    /\ UNCHANGED <<users, transactions, op, request, query, fetched, response, dbCalls,
                   ledger, directory>>

NextMigrations == RunMigrations

SpecMigrations == InitMigrations /\ [][NextMigrations]_vars

----------------------------------------------------------------------------
(* Vocabulary of the properties *)

LastRow == transactions[Len(transactions)]

Succeeded == response.status = 200

\* the request as get_transactions receives it: get_amount_handler passes no amount bounds
Filters ==
    IF op = "get_amount"
    THEN [request EXCEPT !.amount_min = None, !.amount_max = None]
    ELSE request

FilterNames == {"user_id", "category", "transaction_type", "amount_min", "amount_max",
                "start_timestamp", "end_timestamp"}

NumPresent(p) == Cardinality({f \in FilterNames : IsSome(p[f])})

\* one comparison per present filter, each on its own column
Matches(row, p) ==
    /\ IsSome(p.user_id) => row.user_id = Unwrap(p.user_id)
    /\ IsSome(p.category) => row.category = Unwrap(p.category)
    /\ IsSome(p.transaction_type) => row.transaction_type = Unwrap(p.transaction_type)
    /\ IsSome(p.amount_min) => row.amount >= Unwrap(p.amount_min)
    /\ IsSome(p.amount_max) => row.amount <= Unwrap(p.amount_max)
    /\ IsSome(p.start_timestamp) => row.created_at >= Unwrap(p.start_timestamp)
    /\ IsSome(p.end_timestamp) => row.created_at <= Unwrap(p.end_timestamp)

\* the record and the stored row are the same transaction
SameTransaction(t, row) ==
    /\ t.id = row.id
    /\ t.user_id = row.user_id
    /\ TransactionType_to_string(t.transaction_type) = row.transaction_type
    /\ TransactionCategory_to_string(t.category) = row.category
    /\ t.amount = row.amount
    /\ t.description = row.description
    /\ t.created_at = row.created_at
    /\ t.updated_at = row.last_updated_at

RECURSIVE SumOfRows(_)
\* the sum of the amounts of a set of rows, in no particular order
SumOfRows(rows) ==
    IF rows = {} THEN 0
    ELSE LET r == CHOOSE x \in rows : TRUE IN r.amount + SumOfRows(rows \ {r})

Count(seq, x) == Cardinality({i \in DOMAIN seq : seq[i] = x})

ComparisonOf(f) ==
    CASE f = "user_id" -> " user_id = "
      [] f = "category" -> " category = "
      [] f = "transaction_type" -> " transaction_type = "
      [] f = "amount_min" -> " amount >= "
      [] f = "amount_max" -> " amount <= "
      [] f = "start_timestamp" -> " created_at >= "
      [] f = "end_timestamp" -> " created_at <= "

ArgumentOf(f, p) ==
    CASE f = "user_id" -> Uuid(Unwrap(p.user_id))
      [] f = "category" -> Text(Unwrap(p.category))
      [] f = "transaction_type" -> Text(Unwrap(p.transaction_type))
      [] f = "amount_min" -> Numeric(Unwrap(p.amount_min))
      [] f = "amount_max" -> Numeric(Unwrap(p.amount_max))
      [] f = "start_timestamp" -> Timestamptz(Unwrap(p.start_timestamp))
      [] f = "end_timestamp" -> Timestamptz(Unwrap(p.end_timestamp))

PresentIn(order, p) == SelectSeq(order, LAMBDA f : IsSome(p[f]))

\* the query with one clause per present filter, the clauses in the given order
QueryInOrder(order, p) ==
    LET fs == PresentIn(order, p)
    IN  [sql |-> [j \in 1..(1 + 3 * Len(fs)) |->
                    IF j = 1 THEN "SELECT * FROM transactions"
                    ELSE LET k == (j + 1) \div 3
                         IN  CASE (j + 1) % 3 = 0 -> (IF k = 1 THEN " WHERE" ELSE " AND")
                               [] (j + 1) % 3 = 1 -> ComparisonOf(fs[k])
                               [] (j + 1) % 3 = 2 -> Placeholders[k]],
         args |-> [k \in 1..Len(fs) |-> ArgumentOf(fs[k], p)]]

TableOrder == <<"user_id", "category", "transaction_type", "amount_min", "amount_max",
                "start_timestamp", "end_timestamp">>

EmittedOrder == <<"user_id", "category", "transaction_type", "start_timestamp",
                  "end_timestamp", "amount_min", "amount_max">>

QueryWasBuilt == op \in {"get_transactions", "get_amount"} /\ dbCalls > 0

----------------------------------------------------------------------------
(* Properties *)

\* C1: every stored transaction has an amount whose sign matches its kind:
\* Expense rows are <= 0 and Income rows are >= 0, whatever the sign of the
\* raw amounts of the creation requests.
C1_SignMatchesKind ==
    \A i \in DOMAIN transactions :
        /\ transactions[i].transaction_type = "Expense" => transactions[i].amount <= 0
        /\ transactions[i].transaction_type = "Income" => transactions[i].amount >= 0

\* an Income was created from a negative raw amount and stored positive
C1_Witness ==
    /\ op = "create_transaction" /\ Succeeded
    /\ request.transaction_type = "Income" /\ request.amount < 0
    /\ LastRow.transaction_type = "Income" /\ LastRow.amount > 0

\* C2: the normalization gives -|a| for Expense and +|a| for Income for a raw
\* amount a of either sign, so the Expense result is the negation of the
\* Income result; a created row stores that value.
C2_NormalizeIsSignedMagnitude ==
    /\ op = "normalized_amount" =>
          LET a == request.amount
              magnitude == CHOOSE m \in 0..MaxAmount : m = a \/ m = -a
          IN  /\ request.transaction_type = Expense => response = -magnitude
              /\ request.transaction_type = Income => response = magnitude
              /\ normalized_amount(Expense, a) = -normalized_amount(Income, a)
    /\ op = "create_transaction" /\ Succeeded =>
          LET a == request.amount
              magnitude == CHOOSE m \in 0..MaxAmount : m = a \/ m = -a
          IN  LastRow.amount = IF request.transaction_type = "Expense"
                               THEN -magnitude ELSE magnitude

\* the normalization was applied to a negative raw amount of an Income
C2_Witness ==
    /\ op = "normalized_amount"
    /\ request.transaction_type = Income /\ request.amount < 0
    /\ response = -request.amount

\* C3: parsing the canonical label of a variant gives the variant back, for
\* both vocabularies, and no two variants share a label.
C3_RoundTrip ==
    /\ op = "TransactionType::to_string" =>
          /\ TransactionType_from_str(response) = Ok(request)
          /\ \A k \in TransactionType : TransactionType_to_string(k) = response => k = request
    /\ op = "TransactionCategory::to_string" =>
          /\ TransactionCategory_from_str(response) = Ok(request)
          /\ \A k \in TransactionCategory :
                TransactionCategory_to_string(k) = response => k = request

\* the label of Entertainment was produced
C3_Witness ==
    /\ op = "TransactionCategory::to_string"
    /\ request = Entertainment
    /\ response = "Entertainment"

\* C4: from_str of either vocabulary fails for every string that is not
\* exactly a canonical label (wrong case and the empty string included);
\* nothing is coerced to a default variant.
C4_StrictParse ==
    /\ op = "TransactionType::from_str" /\ request \notin {"Expense", "Income"}
          => ~response.ok
    /\ op = "TransactionCategory::from_str"
          /\ request \notin {"Groceries", "Restaurant", "Housing", "Holidays", "Shopping",
                             "Entertainment", "Other"}
          => ~response.ok

\* a wrong-case label was refused
C4_Witness ==
    /\ op = "TransactionType::from_str"
    /\ request = "income"
    /\ ~response.ok

\* C5: a successful get_transactions returns exactly the stored transactions
\* that satisfy one comparison per present filter (user_id =, category =,
\* transaction_type =, amount >= amount_min, amount <= amount_max,
\* created_at >= start, created_at <= end), each once; absent filters do not
\* restrict.
C5_ReturnsExactlyTheMatches ==
    op = "get_transactions" /\ Succeeded =>
        LET returned == response.body.users
            matching == {row \in Range(transactions) : Matches(row, request)}
        IN  /\ Len(returned) = Cardinality(matching)
            /\ \A row \in matching :
                  \E i \in DOMAIN returned : SameTransaction(returned[i], row)
            /\ \A i \in DOMAIN returned :
                  \E row \in matching : SameTransaction(returned[i], row)

\* four filters on four columns selected one of two stored transactions
C5_Witness ==
    /\ op = "get_transactions" /\ Succeeded
    /\ IsSome(request.user_id) /\ IsSome(request.category)
    /\ IsSome(request.amount_max) /\ IsSome(request.end_timestamp)
    /\ Len(transactions) = 2
    /\ Len(response.body.users) = 1

\* C6: the query built for n present filters has WHERE once if n >= 1 and
\* never if n = 0, has AND max(n-1, 0) times, introduces the first clause
\* with WHERE and each later one with AND, and binds n arguments; for n = 0
\* it is the base query with no argument.
C6_WhereOnceThenAnd ==
    QueryWasBuilt =>
        LET n == NumPresent(Filters)
        IN  /\ Count(query.sql, " WHERE") = (IF n >= 1 THEN 1 ELSE 0)
            /\ Count(query.sql, " AND") = (IF n >= 1 THEN n - 1 ELSE 0)
            /\ Len(query.args) = n
            /\ Len(query.sql) = 1 + 3 * n
            /\ \A k \in 1..n :
                  query.sql[3 * k - 1] = (IF k = 1 THEN " WHERE" ELSE " AND")
            /\ n = 0 => query = [sql |-> <<"SELECT * FROM transactions">>, args |-> <<>>]

\* a query with all seven filters was built
C6_Witness ==
    /\ op = "get_transactions" /\ dbCalls > 0
    /\ NumPresent(request) = 7
    /\ Count(query.sql, " AND") = 6
    /\ Len(query.args) = 7

\* C7 as stated: the clauses and their arguments appear in the order of the
\* table: user_id, category, kind, amount_min, amount_max, start_time,
\* end_time, restricted to the filters present.
C7_TableOrder ==
    QueryWasBuilt => query = QueryInOrder(TableOrder, Filters)

\* C7, amended: the clauses and their arguments appear in the fixed order
\* user_id, category, kind, start_time, end_time, amount_min, amount_max,
\* restricted to the filters present, so the query is a function of the
\* filter set.
C7_EmittedOrder ==
    QueryWasBuilt => query = QueryInOrder(EmittedOrder, Filters)

\* a query with a time filter and an amount filter was built
C7_Witness ==
    /\ op = "get_transactions" /\ dbCalls > 0
    /\ IsSome(request.user_id) /\ IsSome(request.amount_min)
    /\ IsSome(request.end_timestamp)
    /\ query.sql = <<"SELECT * FROM transactions", " WHERE", " user_id = ", "$1",
                     " AND", " created_at <= ", "$2", " AND", " amount >= ", "$3">>

\* C8: get_user_transaction_sum returns the sum of the amounts of the rows
\* the fetch returned, whatever the order storage returned them in, and
\* returns zero, not an error, when the fetch returned no row.
C8_SumOfFetched ==
    op = "get_amount" /\ fetched.ok =>
        /\ Succeeded
        /\ response.body.users = SumOfRows(Range(Value(fetched)))
        /\ Value(fetched) = <<>> => response.body.users = 0

\* two rows were summed, the later one returned first
C8_Witness ==
    /\ op = "get_amount" /\ Succeeded /\ fetched.ok
    /\ Len(Value(fetched)) = 2
    /\ Value(fetched)[1].id > Value(fetched)[2].id
    /\ response.body.users = 4

\* C9 as stated: the returned sum covers exactly the stored transactions that
\* match every filter of the request, amount_min and amount_max included.
C9_SumHonoursAmountBounds ==
    op = "get_amount" /\ Succeeded =>
        response.body.users =
            SumOfRows({row \in Range(transactions) : Matches(row, request)})

\* C10: a sum request without user_id fails, whatever the other filters are,
\* and no query is issued to storage.
C10_NoUserIdFails ==
    op = "get_amount" /\ ~IsSome(request.user_id) =>
        /\ ~Succeeded
        /\ response.status >= 400
        /\ dbCalls = 0
        /\ query = NoQuery
        /\ ~fetched.ok

\* a sum request without user_id and with another filter was refused while
\* transactions were stored
C10_Witness ==
    /\ op = "get_amount" /\ ~IsSome(request.user_id)
    /\ IsSome(request.category) /\ IsSome(request.amount_min)
    /\ transactions # <<>>
    /\ response.status = 500

\* every column read by map_row_to_transaction is there and both labels are canonical
RowMaps(row) ==
    /\ {"id", "user_id", "transaction_type", "category", "description", "created_at",
        "last_updated_at", "amount"} \subseteq DOMAIN row
    /\ row.transaction_type \in {"Expense", "Income"}
    /\ row.category \in {"Groceries", "Restaurant", "Housing", "Holidays", "Shopping",
                         "Entertainment", "Other"}

\* C11: get_transactions is all-or-nothing over the rows storage returns: if
\* every row maps, the result has one record per row, in the order returned;
\* if any row fails to map, wherever it is, the call fails and returns no
\* record.
C11_AllOrNothing ==
    op = "get_transactions" /\ fetched.ok =>
        LET rows == Value(fetched)
        IN  IF \A i \in DOMAIN rows : RowMaps(rows[i])
            THEN /\ Succeeded
                 /\ Len(response.body.users) = Len(rows)
                 /\ \A i \in DOMAIN rows : SameTransaction(response.body.users[i], rows[i])
            ELSE /\ response.status = 500
                 /\ response.body = <<>>

\* two rows were returned, the first maps and the second does not, and the
\* call failed
C11_Witness ==
    /\ op = "get_transactions" /\ fetched.ok
    /\ Len(Value(fetched)) = 2
    /\ RowMaps(Value(fetched)[1]) /\ ~RowMaps(Value(fetched)[2])
    /\ response.status = 500

\* C12: after any sequence of successful creations for a user, the sum
\* requested with only that user's id is the sum of the magnitudes of the
\* user's Income creations minus that of the user's Expense creations.
C12_SumIsIncomeMinusExpense ==
    op = "get_amount" /\ Succeeded /\ NumPresent(request) = 1 =>
        \A i \in DOMAIN users :
            users[i].id = Unwrap(request.user_id) =>
                response.body.users = ledger[users[i].email]

\* the second user created an Income and nothing else, the first user created
\* something too, and the second user's sum was requested
C12_Witness ==
    /\ op = "get_amount" /\ Succeeded /\ NumPresent(request) = 1
    /\ Len(users) = 2 /\ Len(transactions) = 2
    /\ request.user_id = Some(2)
    /\ transactions[1].user_id = 1 /\ transactions[2].user_id = 2
    /\ transactions[2].transaction_type = "Income"
    /\ response.body.users = 2
    /\ ledger[users[2].email] = 2

\* the request names a kind or a category outside the vocabularies
HasInvalidLabel(req) ==
    \/ req.transaction_type \notin {"Expense", "Income"}
    \/ /\ IsSome(req.category)
       /\ Unwrap(req.category) \notin {"Groceries", "Restaurant", "Housing", "Holidays",
                                       "Shopping", "Entertainment", "Other"}

\* C13: a creation request whose transaction_type or category is not a
\* canonical label is answered 400 without any storage call, and the stored
\* transactions (and users) are unchanged by it.
C13_InvalidLabelRejected ==
    [][(op' = "create_transaction" /\ HasInvalidLabel(request')) =>
          /\ response'.status = 400
          /\ dbCalls' = 0
          /\ transactions' = transactions
          /\ users' = users]_vars

\* a request of a registered user with a valid kind and the category Snacks
\* was answered 400
C13_Witness ==
    /\ op = "create_transaction"
    /\ request.transaction_type = "Income" /\ request.category = Some("Snacks")
    /\ \E i \in DOMAIN users : users[i].email = request.user_email
    /\ response.status = 400 /\ dbCalls = 0

\* C14 as stated: a lookup of an email with no matching row is answered 404,
\* and only a storage failure is answered 500.
C14_NotFoundIs404 ==
    op = "get_user" /\ ~fetched.ok =>
        /\ fetched.err = "User could not be created from row" => response.status = 404
        /\ fetched.err = "storage error" => response.status = 500

\* C15 as stated: the responses of GET /api/users/{email} and GET /api/users
\* hold, per user, the fields email, name, created_at and updated_at and no
\* other.
C15_OnlyTheProjection ==
    /\ op = "get_user" /\ Succeeded =>
          DOMAIN response.body.user = {"email", "name", "created_at", "updated_at"}
    /\ op = "get_users" /\ Succeeded =>
          \A i \in DOMAIN response.body.users :
              DOMAIN response.body.users[i] = {"email", "name", "created_at", "updated_at"}

\* the email names no row of the users table
Unregistered(email) == \A j \in DOMAIN users : users[j].email # email

\* C16: after every step each transaction row's user_id is the id of a row of
\* the users table, and a creation request whose email names no user fails
\* and leaves the transactions table as it was.
C16_TransactionsReferenceUsers ==
    [][/\ \A i \in DOMAIN transactions' :
             \E j \in DOMAIN users' : users'[j].id = transactions'[i].user_id
       /\ (op' = "create_transaction" /\ Unregistered(request'.user_email)) =>
             (response'.status # 200 /\ transactions' = transactions)]_vars

C16_Witness ==
    /\ op = "create_transaction"
    /\ ~HasInvalidLabel(request)
    /\ Unregistered(request.user_email)
    /\ users # <<>> /\ transactions # <<>>
    /\ response.status = 500 /\ dbCalls = 1

\* every row of the table before is still there, in place and unaltered
Kept(before, after) ==
    /\ Len(before) <= Len(after)
    /\ \A i \in DOMAIN before : after[i] = before[i]

\* C17: no step alters or removes a row of either table; a successful user
\* creation adds exactly one user row, a successful transaction creation
\* exactly one transaction row, and a read request leaves both tables as they
\* were.
C17_AppendOnly ==
    [][/\ Kept(users, users') /\ Kept(transactions, transactions')
       /\ (op' = "create_user" /\ response'.status = 200) =>
             (Len(users') = Len(users) + 1 /\ transactions' = transactions)
       /\ (op' = "create_transaction" /\ response'.status = 200) =>
             (Len(transactions') = Len(transactions) + 1 /\ users' = users)
       /\ op' \in {"get_user", "get_users", "get_transactions", "get_amount"} =>
             (users' = users /\ transactions' = transactions)]_vars

C17_Witness ==
    /\ op = "create_transaction" /\ Succeeded
    /\ Len(transactions) = 2 /\ Len(users) = 2
    /\ transactions[1] # transactions[2]

\* the request passes the checks the GET handler makes before it calls storage
ReachesStorage ==
    /\ parse_category(request).ok /\ parse_transaction_type(request).ok
    /\ op = "get_amount" => IsSome(request.user_id)

\* storage failed, or returned a row that does not map
FetchFailed ==
    \/ ~fetched.ok
    \/ \E i \in DOMAIN Value(fetched) : ~RowMaps(Value(fetched)[i])

\* C18 as stated: no request issues more than one storage round trip.
C18_AtMostOneRoundTrip ==
    op \in {"create_transaction", "get_transactions", "get_amount"} => dbCalls <= 1

\* C18, amended: a transaction listing or sum request issues at most one
\* storage round trip and a transaction creation at most two (the user lookup,
\* then the insert); a sum request that passes the handler's checks issues
\* exactly one filtered fetch; a failed fetch or row mapping is answered 500
\* with that one call made, and a creation whose user lookup fails makes no
\* second call.
C18_RoundTrips ==
    /\ op \in {"get_transactions", "get_amount"} =>
          /\ dbCalls = (IF ReachesStorage THEN 1 ELSE 0)
          /\ (ReachesStorage /\ FetchFailed) => response.status = 500
    /\ op = "create_transaction" =>
          /\ dbCalls <= 2
          /\ HasInvalidLabel(request) => dbCalls = 0
          /\ (~HasInvalidLabel(request) /\ Unregistered(request.user_email)) => dbCalls = 1
          /\ dbCalls = 2 => ~Unregistered(request.user_email)

C18_Witness ==
    /\ op = "get_amount" /\ ReachesStorage
    /\ fetched.ok /\ Len(Value(fetched)) = 2
    /\ ~RowMaps(Value(fetched)[2]) /\ RowMaps(Value(fetched)[1])
    /\ response.status = 500 /\ dbCalls = 1

\* C19: the row a successful creation adds holds the category label the
\* request supplied, or Other when it supplied none, and the description the
\* request supplied, or the empty string when it supplied none.
C19_DefaultsAtCreation ==
    op = "create_transaction" /\ Succeeded =>
        /\ LastRow.category =
              (IF IsSome(request.category) THEN Unwrap(request.category) ELSE "Other")
        /\ LastRow.description =
              (IF IsSome(request.description) THEN Unwrap(request.description) ELSE "")

C19_Witness ==
    /\ op = "create_transaction" /\ Succeeded
    /\ request.category = None /\ request.description = None
    /\ Len(transactions) = 2
    /\ transactions[1].category = "Groceries" /\ transactions[1].description = "rent"
    /\ LastRow.category = "Other" /\ LastRow.description = ""

\* the rows of the table that belong to the user
OwnRows(table, user_id) == {row \in Range(table) : row.user_id = user_id}

\* C20: when a sum request for user U succeeds, the same request against any
\* store that holds the same rows of U, whatever rows of other users it
\* holds, gives the same sum whenever it succeeds.
C20_SumDependsOnOwnRows ==
    op = "get_amount" /\ Succeeded =>
        \A other \in Stores :
            OwnRows(other, Unwrap(request.user_id))
                = OwnRows(transactions, Unwrap(request.user_id)) =>
                \A o \in get_amount_handler(other, request) :
                    o.response.status = 200 =>
                        o.response.body.users = response.body.users

C20_Witness ==
    /\ op = "get_amount" /\ Succeeded
    /\ request.user_id = Some(1)
    /\ request.category = None /\ request.transaction_type = None
    /\ request.start_timestamp = None /\ request.end_timestamp = None
    /\ Len(transactions) = 2
    /\ transactions[1].user_id = 1 /\ transactions[1].amount = MaxAmount
    /\ transactions[2].user_id = 2 /\ transactions[2].amount = MaxAmount
    /\ response.body.users = MaxAmount

\* the .sql files of the migrations directory
SqlFiles == IF IsSome(directory) THEN Range(migration_files(Unwrap(directory))) ELSE {}

\* every statement of the file is among the committed ones
Applied(filename, committed) ==
    \A k \in 1..Len(statements(read_to_string(filename))) :
        \E i \in DOMAIN committed : committed[i] = [file |-> filename, idx |-> k]

\* no statement of a file recorded with success = true is sent to storage again
C21_NoSecondExecution ==
    \A r \in sqlx_migrations :
        r.success => \A i \in DOMAIN executed' : executed'[i].file # r.description

\* the statements are sent to storage in the sorted order of their files
C21_SortedOrder ==
    \A i, j \in DOMAIN executed' :
        i < j => ~path_less(executed'[j].file, executed'[i].file)

\* after a run that returns Ok every .sql file of the directory is applied
C21_AllApplied == migrated'.ok => \A f \in SqlFiles : Applied(f, schema')

\* C21 as stated: in every run of run_migrations no statement of a file already
\* recorded with success = true is executed again, the statements are executed
\* in the sorted order of the file names, and when the run returns Ok every
\* .sql file of the directory has been applied, whatever its version prefix.
C21_IdempotentAndComplete ==
    [][C21_NoSecondExecution /\ C21_SortedOrder /\ C21_AllApplied]_vars

\* C22 as stated: when a statement of a migration fails, the run returns an
\* error, no statement of that migration is committed, no statement of a later
\* file was sent to storage, and _sqlx_migrations holds a row of that
\* migration's version with success = false.
C22_FailureRolledBackAndRecorded ==
    migrated.error = "migration failed" =>
        /\ ~migrated.ok
        /\ \A i \in DOMAIN schema : schema[i].file # migrated.filename
        /\ \A i \in DOMAIN executed : ~path_less(migrated.filename, executed[i].file)
        /\ \E r \in sqlx_migrations :
              r.version = version(migrated.filename) /\ ~r.success

====
